---- MODULE Spec2Model ----
(***************************************************************************)
(* Model of src/src/MainWindow.tsx: the dataset held by the MainWindow     *)
(* component, the handlers that replace or mutate it, the effect that      *)
(* publishes and caches every new snapshot, and the save/load pipeline.    *)
(*                                                                         *)
(* JavaScript values are modelled as follows.                              *)
(*   number      [kind, n]  kind "finite" carries the integer n; NaN,      *)
(*               Infinity and undefined are kinds of their own             *)
(*   date string <<y, m, d>>, standing for the text "yyyy-MM-dd"           *)
(*   Date        [y, m, d], the calendar fields of the instant in the      *)
(*               local time zone (the fields date-fns reads and writes)    *)
(*   object      a function from its keys; an absent key is absent from    *)
(*               the DOMAIN                                                *)
(*   array       a sequence                                                *)
(* Row objects have identity: `shared` records which rows of the current   *)
(* snapshot are the very objects of DEFAULT_DATA.rows, so that a write     *)
(* through one is seen through the other.                                  *)
(***************************************************************************)
EXTENDS Integers, Sequences, FiniteSets, TLC

VARIABLES
    utcOffset,      \* hours east of UTC of the machine the window runs on
    DEFAULT_DATA,   \* the imported default-data.json object (its rows are mutable objects)
    data,           \* useState<Data>: the current snapshot
    shared,         \* shared[i] = j: data.rows[i] is the object DEFAULT_DATA.rows[j]; 0: another object
    cacheFilePath,  \* useState<string | null>
    startup,        \* position of the startup loadCachedData
    emitted,        \* payload of the last "data" event
    cacheFile,      \* content of the cache file
    userFile,       \* content of the file the user saves to and loads from
    msg,            \* text of the last message box (NoMessage: none yet)
    dataIsDefault,  \* data === DEFAULT_DATA: the snapshot is the imported object itself
    shifts,         \* how many times incrementMonth or decrementMonth ran
    emits,          \* how many "data" events the last step published
    channel,        \* "up": emit resolves; "down": emit rejects
    inflight,       \* texts of the cache writes issued and not yet completed, oldest first
    cacheLog        \* "idle": no cache write issued yet; "ordered": the writes issued since the
                    \* queue was last empty completed oldest first; "overtaken": one did not

vars == <<utcOffset, DEFAULT_DATA, data, shared, cacheFilePath, startup,
          emitted, cacheFile, userFile, msg, dataIsDefault, shifts,
          emits, channel, inflight, cacheLog>>

(***************************************************************************)
(* Bounds                                                                  *)
(***************************************************************************)
MaxCols == 2
MaxRows == 3
MaxShift == 3
MaxYears == 0
MaxInflight == 2

UtcOffsets == {-5, 2}

(***************************************************************************)
(* Numbers                                                                 *)
(***************************************************************************)
Num(n) == [kind |-> "finite", n |-> n]
NaN == [kind |-> "NaN", n |-> 0]
Infinity == [kind |-> "Infinity", n |-> 0]
undefined == [kind |-> "undefined", n |-> 0]
JsonNull == [kind |-> "null", n |-> 0]

\* isNaN(value): ToNumber(undefined) is NaN
isNaN(v) == v.kind \in {"NaN", "undefined"}

\* parseFloat on the raw strings an input can deliver
RawStrings == {"", "-1", "1e999"}
parseFloat(raw) ==
    CASE raw = "-1" -> Num(-1)
      [] raw = "2" -> Num(2)
      [] raw = "1e999" -> Infinity
      [] OTHER -> NaN

(***************************************************************************)
(* Dates                                                                   *)
(***************************************************************************)
IsLeap(y) == (y % 4 = 0 /\ y % 100 # 0) \/ y % 400 = 0
DaysInMonth(y, m) ==
    IF m = 2 THEN (IF IsLeap(y) THEN 29 ELSE 28)
    ELSE IF m \in {4, 6, 9, 11} THEN 30 ELSE 31

PrevDay(y, m, d) ==
    IF d > 1 THEN [y |-> y, m |-> m, d |-> d - 1]
    ELSE IF m > 1 THEN [y |-> y, m |-> m - 1, d |-> DaysInMonth(y, m - 1)]
    ELSE [y |-> y - 1, m |-> 12, d |-> 31]

\* new Date("yyyy-MM-dd"): a date-only string is midnight UTC; west of
\* Greenwich that instant still falls on the previous local day
NewDate(s) ==
    IF utcOffset < 0 THEN PrevDay(s[1], s[2], s[3])
    ELSE [y |-> s[1], m |-> s[2], d |-> s[3]]

\* date-fns addMonths: same day of the target month, clamped to its last day
addMonths(date, amount) ==
    LET total == date.y * 12 + (date.m - 1) + amount
        y2 == total \div 12
        m2 == (total % 12) + 1
        dim == DaysInMonth(y2, m2)
    IN [y |-> y2, m |-> m2, d |-> IF date.d >= dim THEN dim ELSE date.d]

subMonths(date, amount) == addMonths(date, 0 - amount)

\* date-fns format(date, "yyyy-MM-dd"): the local calendar fields
format(date) == <<date.y, date.m, date.d>>

SeedDate == <<2027, 10, 14>>

(***************************************************************************)
(* Sequence helpers                                                        *)
(***************************************************************************)
Range(s) == {s[i] : i \in DOMAIN s}
includes(s, x) == x \in Range(s)
\* Array.prototype.filter on the index: every element but the one at i
RemoveAt(s, i) == [k \in 1..(Len(s) - 1) |-> IF k < i THEN s[k] ELSE s[k + 1]]
\* Array.prototype.map
Map(s, F(_)) == [k \in 1..Len(s) |-> F(s[k])]

(***************************************************************************)
(* Objects                                                                 *)
(***************************************************************************)
\* { ...obj, [key]: value }
With(obj, key, value) ==
    [k \in DOMAIN obj \cup {key} |-> IF k = key THEN value ELSE obj[k]]
\* delete obj[key]
Delete(obj, key) == [k \in DOMAIN obj \ {key} |-> obj[k]]
\* obj[key], undefined when the key is absent
Get(obj, key) == IF key \in DOMAIN obj THEN obj[key] ELSE undefined

\* the built-in default snapshot (default-data.json)
DefaultData ==
    [headers |-> <<"Lab 1", "Lab 2">>,
     rows |-> << [date |-> <<2027, 1, 31>>,
                  values |-> [h \in {"Lab 1", "Lab 2"} |-> IF h = "Lab 1" THEN Num(1) ELSE Num(2)],
                  hidden |-> FALSE],
                 [date |-> <<2027, 4, 30>>,
                  values |-> [h \in {"Lab 1", "Lab 2"} |-> IF h = "Lab 1" THEN Num(3) ELSE Num(4)]] >>]

\* the names a header can be renamed to
Names == {"Lab 1", "Lab 2", "Lab 3"}

(***************************************************************************)
(* prepareData, lines 51-66                                                *)
(***************************************************************************)
\* line 60 without the test: the value goes out as it is
PrepareValueAsIs(value) == value

\* line 60
PrepareValue(value) == IF isNaN(value) THEN Num(0) ELSE value

PrepareRow(row) ==
    [row EXCEPT !.values = [key \in DOMAIN row.values |-> PrepareValue(row.values[key])]]

prepareData(d) == [headers |-> d.headers, rows |-> Map(d.rows, PrepareRow)]

(***************************************************************************)
(* Files: JSON.stringify, JSON.parse                                       *)
(***************************************************************************)
NoFile == [kind |-> "absent"]
NotJson == [kind |-> "garbage"]
JsonText(doc) == [kind |-> "json", doc |-> doc]

\* JSON.stringify of a number: NaN and Infinity are written as null
StringifyNumber(v) == IF v.kind = "finite" THEN v ELSE JsonNull

\* JSON.stringify of an object leaves out the keys whose value is undefined
StringifyRow(row) ==
    [row EXCEPT !.values =
        [key \in {k \in DOMAIN row.values : row.values[k].kind # "undefined"} |->
            StringifyNumber(row.values[key])]]

JSONstringify(d) ==
    JsonText([headers |-> d.headers, rows |-> Map(d.rows, StringifyRow)])

\* JSON.parse: text that is no JSON throws
IsJson(content) == content.kind = "json"
JSONparse(content) == content.doc

\* dataSchema.safeParse (dataSchema.ts): headers an array of strings, rows an
\* array of { date, values: string -> number, hidden?: boolean }
IsNumber(v) == v.kind \in {"finite", "Infinity"}
SchemaRowOk(row) ==
    /\ {"date", "values"} \subseteq DOMAIN row
    /\ DOMAIN row \subseteq {"date", "values", "hidden"}
    /\ \A key \in DOMAIN row.values : IsNumber(row.values[key])
safeParseSuccess(rawData) ==
    /\ DOMAIN rawData = {"headers", "rows"}
    /\ \A i \in DOMAIN rawData.rows : SchemaRowOk(rawData.rows[i])

\* line 101 without the default: the row is taken as it was read
NormalizeRowAsRead(row) == row

\* applyLoadedData, lines 96-104: hidden: row.hidden ?? false
NormalizeRow(row) ==
    With(row, "hidden", IF "hidden" \in DOMAIN row THEN row.hidden ELSE FALSE)
normalizeLoaded(loadedData) ==
    [headers |-> loadedData.headers, rows |-> Map(loadedData.rows, NormalizeRow)]

(***************************************************************************)
(* Messages                                                                *)
(***************************************************************************)
NoMessage == "none"
DuplicateColumnName == "A column with this name already exists"
InvalidJson == "Invalid JSON file format"
InvalidData == "Invalid data format"
FileSaved == "File saved successfully"
CommunicationError == "Error sending data to chart"

CachePath == "ai-progress-data.cache.json"

(***************************************************************************)
(* setData and the effect on [data], lines 348-365                         *)
(***************************************************************************)
\* cacheData, lines 106-124: writeTextFile is called only under the
\* cacheFilePath of the render the effect belongs to; the call returns before
\* the file is written
cacheData(dataToCache) ==
    /\ inflight' = IF cacheFilePath # "null"
                   THEN Append(inflight, JSONstringify(dataToCache))
                   ELSE inflight
    /\ cacheLog' = IF cacheFilePath # "null" /\ inflight = <<>> THEN "ordered" ELSE cacheLog
    /\ UNCHANGED cacheFile

\* the emit without the catch handler: a rejection shows nothing
emitDataSilently(dataToSend) ==
    IF channel = "up"
    THEN /\ emitted' = dataToSend
         /\ emits' = 1
         /\ UNCHANGED msg
    ELSE /\ emits' = 0
         /\ UNCHANGED <<emitted, msg>>

\* emit("data", dataToSend).catch(...), lines 351-362
emitData(dataToSend) ==
    IF channel = "up"
    THEN /\ emitted' = dataToSend
         /\ emits' = 1
         /\ UNCHANGED msg
    ELSE /\ msg' = CommunicationError
         /\ emits' = 0
         /\ UNCHANGED emitted

\* the effect without the emit
DataEffectWithoutEmit(newData) ==
    /\ emits' = 0
    /\ UNCHANGED <<emitted, msg>>
    /\ cacheData(prepareData(newData))

\* useEffect(..., [data]), lines 348-365
DataEffect(newData) ==
    /\ emitData(prepareData(newData))
    /\ cacheData(prepareData(newData))

\* setData(newData) with a new object, the render and its effects
setData(newData, newShared, newDefault) ==
    /\ data' = newData
    /\ shared' = newShared
    /\ DEFAULT_DATA' = newDefault
    /\ dataIsDefault' = FALSE
    /\ DataEffect(newData)

\* no setData, or setData with the object that is the state already: no
\* render, no effect
NoSetData ==
    /\ emits' = 0
    /\ UNCHANGED <<data, shared, DEFAULT_DATA, dataIsDefault, emitted, cacheFile,
                   inflight, cacheLog>>

NoObject(rows) == [i \in 1..Len(rows) |-> 0]

\* rows[rowIndex].<field> = ... on the row object itself, then
\* setData({ ...data, rows: [...data.rows] })
WriteRow(rowIndex, newRow) ==
    setData([data EXCEPT !.rows[rowIndex] = newRow],
            shared,
            IF shared[rowIndex] # 0
            THEN [DEFAULT_DATA EXCEPT !.rows[shared[rowIndex]] = newRow]
            ELSE DEFAULT_DATA)

Frame == UNCHANGED <<utcOffset, cacheFilePath, startup, userFile, channel>>

(***************************************************************************)
(* Handlers                                                                *)
(***************************************************************************)
\* the years a new row may be dated in
InWindow(s) == s[1] <= SeedDate[1] + MaxYears

\* addRow, lines 218-264
AddRowEmpty ==
    [date |-> format(NewDate(SeedDate)),
     values |-> [header \in Range(data.headers) |-> Num(1)],
     hidden |-> FALSE]

AddRowAfter(lastRow) ==
    [date |-> format(addMonths(NewDate(lastRow.date), 3)),
     values |-> lastRow.values,
     hidden |-> TRUE]

addRow ==
    /\ Len(data.rows) < MaxRows
    /\ LET newRow == IF Len(data.rows) = 0 THEN AddRowEmpty
                     ELSE AddRowAfter(data.rows[Len(data.rows)])
       IN /\ InWindow(newRow.date)
          /\ setData([data EXCEPT !.rows = Append(data.rows, newRow)],
                     Append(shared, 0), DEFAULT_DATA)
    /\ UNCHANGED shifts
    /\ Frame

\* addColumn, lines 266-275
NewHeader == "Lab " \o ToString(Len(data.headers) + 1)

AddColumnRow(row) == [row EXCEPT !.values = With(row.values, NewHeader, Num(1))]

addColumn ==
    /\ Len(data.headers) < MaxCols
    /\ setData([headers |-> Append(data.headers, NewHeader),
                rows |-> Map(data.rows, AddColumnRow)],
               NoObject(data.rows), DEFAULT_DATA)
    /\ UNCHANGED shifts
    /\ Frame

\* removeColumn, lines 277-286
removeColumn(headerToRemove) ==
    /\ LET RemoveFrom(row) == [row EXCEPT !.values = Delete(row.values, headerToRemove)]
       IN setData([headers |-> SelectSeq(data.headers, LAMBDA header : header # headerToRemove),
                   rows |-> Map(data.rows, RemoveFrom)],
                  NoObject(data.rows), DEFAULT_DATA)
    /\ UNCHANGED shifts
    /\ Frame

\* updateHeader, lines 288-308
RenameKey(values, oldHeader, newHeader) ==
    Delete(With(values, newHeader, Get(values, oldHeader)), oldHeader)

RenameHeaders(headers, oldHeader, newHeader) ==
    [i \in 1..Len(headers) |-> IF headers[i] = oldHeader THEN newHeader ELSE headers[i]]

\* line 289 without the test: every rename goes through
IsDuplicateNever(headers, oldHeader, newHeader) == FALSE

\* line 289
IsDuplicate(headers, oldHeader, newHeader) ==
    includes(headers, newHeader) /\ newHeader # oldHeader

updateHeader(oldHeader, newHeader) ==
    /\ IF IsDuplicate(data.headers, oldHeader, newHeader)
       THEN /\ msg' = DuplicateColumnName
            /\ NoSetData
       ELSE LET RenameIn(row) ==
                    [row EXCEPT !.values = RenameKey(row.values, oldHeader, newHeader)]
            IN setData([headers |-> RenameHeaders(data.headers, oldHeader, newHeader),
                        rows |-> Map(data.rows, RenameIn)],
                       NoObject(data.rows), DEFAULT_DATA)
    /\ UNCHANGED shifts
    /\ Frame

\* incrementMonth, lines 310-317
incrementMonth(rowIndex) ==
    /\ shifts < MaxShift
    /\ shifts' = shifts + 1
    /\ LET newDate == format(addMonths(NewDate(data.rows[rowIndex].date), 1))
       IN WriteRow(rowIndex, [data.rows[rowIndex] EXCEPT !.date = newDate])
    /\ Frame

\* decrementMonth, lines 319-326
decrementMonth(rowIndex) ==
    /\ shifts < MaxShift
    /\ shifts' = shifts + 1
    /\ LET newDate == format(subMonths(NewDate(data.rows[rowIndex].date), 1))
       IN WriteRow(rowIndex, [data.rows[rowIndex] EXCEPT !.date = newDate])
    /\ Frame

\* the two buttons of a row, lines 458-487: Date objects compare by their
\* instant, which orders them as their local calendar fields do
valueOf(date) == (date.y * 12 + (date.m - 1)) * 31 + date.d

decrementDisabled(rowIndex) ==
    /\ rowIndex > 1
    /\ valueOf(subMonths(NewDate(data.rows[rowIndex].date), 1))
          <= valueOf(NewDate(data.rows[rowIndex - 1].date))

incrementDisabled(rowIndex) ==
    /\ rowIndex < Len(data.rows)
    /\ valueOf(addMonths(NewDate(data.rows[rowIndex].date), 1))
          >= valueOf(NewDate(data.rows[rowIndex + 1].date))

clickDecrement(rowIndex) == ~decrementDisabled(rowIndex) /\ decrementMonth(rowIndex)

clickIncrement(rowIndex) == ~incrementDisabled(rowIndex) /\ incrementMonth(rowIndex)

\* updateValue, lines 328-333
updateValue(rowIndex, header, value) ==
    /\ WriteRow(rowIndex,
                [data.rows[rowIndex] EXCEPT
                    !.values = With(data.rows[rowIndex].values, header, parseFloat(value))])
    /\ UNCHANGED shifts
    /\ Frame

\* removeRow, lines 335-340
removeRow(rowIndex) ==
    /\ setData([data EXCEPT !.rows = RemoveAt(data.rows, rowIndex)],
               RemoveAt(shared, rowIndex), DEFAULT_DATA)
    /\ UNCHANGED shifts
    /\ Frame

\* toggleRowVisibility, lines 342-346: !undefined is true
toggleRowVisibility(rowIndex) ==
    /\ LET row == data.rows[rowIndex]
           hidden == IF "hidden" \in DOMAIN row THEN row.hidden ELSE FALSE
       IN WriteRow(rowIndex, With(row, "hidden", ~hidden))
    /\ UNCHANGED shifts
    /\ Frame

\* resetToDefaultData, lines 214-216: setData(DEFAULT_DATA) hands React the
\* imported object; when it already is the state nothing renders
resetToDefaultData ==
    /\ IF dataIsDefault
       THEN /\ NoSetData
            /\ UNCHANGED msg
       ELSE /\ data' = DEFAULT_DATA
            /\ shared' = [i \in 1..Len(DEFAULT_DATA.rows) |-> i]
            /\ dataIsDefault' = TRUE
            /\ UNCHANGED DEFAULT_DATA
            /\ DataEffect(DEFAULT_DATA)
    /\ UNCHANGED shifts
    /\ Frame

(***************************************************************************)
(* Save and load                                                           *)
(***************************************************************************)
\* saveDataToFile, lines 145-178, with a path chosen in the dialog
saveDataToFile ==
    /\ userFile' = JSONstringify(prepareData(data))
    /\ msg' = FileSaved
    /\ NoSetData
    /\ UNCHANGED <<utcOffset, cacheFilePath, startup, shifts, channel>>

\* handleKeyDown on Ctrl/Cmd+S, lines 367-398: the listener is registered
\* once (dependencies []), so it calls the saveDataToFile of the first render,
\* whose prepareData reads that render's data: the imported object
handleKeyDown ==
    /\ userFile' = JSONstringify(prepareData(DEFAULT_DATA))
    /\ msg' = FileSaved
    /\ NoSetData
    /\ UNCHANGED <<utcOffset, cacheFilePath, startup, shifts, channel>>

\* parseData without safeParse: whatever is JSON gets applied
parseAndApplyUnvalidated(fileContent) ==
    IF ~IsJson(fileContent)
    THEN /\ msg' = InvalidJson
         /\ NoSetData
    ELSE setData(normalizeLoaded(JSONparse(fileContent)),
                 NoObject(JSONparse(fileContent).rows), DEFAULT_DATA)

\* parseData (lines 68-94) followed by applyLoadedData (lines 96-104), as
\* loadDataFromFile and loadCachedData both run them on the text they read
parseAndApply(fileContent) ==
    IF ~IsJson(fileContent)
    THEN /\ msg' = InvalidJson
         /\ NoSetData
    ELSE IF ~safeParseSuccess(JSONparse(fileContent))
    THEN /\ msg' = InvalidData
         /\ NoSetData
    ELSE setData(normalizeLoaded(JSONparse(fileContent)),
                 NoObject(JSONparse(fileContent).rows), DEFAULT_DATA)

Applies(fileContent) == IsJson(fileContent) /\ safeParseSuccess(JSONparse(fileContent))

\* files the open dialog offers besides the one saved from here
SampleDoc ==
    [headers |-> <<"Lab 1">>,
     rows |-> << [date |-> <<2027, 7, 15>>, values |-> [h \in {"Lab 1"} |-> Num(5)]],
                 [date |-> <<2027, 8, 15>>, values |-> [h \in {"Lab 1"} |-> Num(6)],
                  hidden |-> TRUE] >>]
NullDoc ==
    [headers |-> <<"Lab 1">>,
     rows |-> << [date |-> <<2027, 7, 15>>, values |-> [h \in {"Lab 1"} |-> JsonNull],
                  hidden |-> TRUE] >>]
OtherFiles == {NotJson, JsonText(NullDoc), JsonText(SampleDoc)}

\* loadDataFromFile, lines 180-212, with a file chosen in the dialog
loadDataFromFile(fileContent) ==
    /\ fileContent # NoFile
    /\ parseAndApply(fileContent)
    /\ UNCHANGED <<utcOffset, cacheFilePath, startup, userFile, shifts, channel>>

(***************************************************************************)
(* Startup: loadCachedData, lines 126-143                                  *)
(***************************************************************************)
\* getCacheFilePath and setCacheFilePath, lines 129-130
resolveCachePath ==
    /\ startup = "getCacheFilePath"
    /\ startup' = "readTextFile"
    /\ cacheFilePath' = CachePath
    /\ NoSetData
    /\ UNCHANGED <<utcOffset, userFile, msg, shifts, channel>>

\* exists, readTextFile, parseData, applyLoadedData, lines 132-139
loadCachedData ==
    /\ startup = "readTextFile"
    /\ startup' = "done"
    /\ IF cacheFile = NoFile
       THEN NoSetData /\ UNCHANGED msg
       ELSE parseAndApply(cacheFile)
    /\ UNCHANGED <<utcOffset, cacheFilePath, userFile, shifts, channel>>

(***************************************************************************)
(* The file system completes a cache write                                 *)
(***************************************************************************)
\* writeTextFile(cacheFilePath, ...) resolves, lines 114-119; the writes in
\* flight are independent calls and complete in any order
writeTextFileDone(i) ==
    /\ i \in DOMAIN inflight
    /\ cacheFile' = inflight[i]
    /\ inflight' = RemoveAt(inflight, i)
    /\ cacheLog' = IF i > 1 THEN "overtaken" ELSE cacheLog
    /\ emits' = 0
    /\ UNCHANGED <<utcOffset, DEFAULT_DATA, data, shared, cacheFilePath, startup, emitted,
                   userFile, msg, dataIsDefault, shifts, channel>>

\* writeTextFile(cacheFilePath, ...) rejects: the catch of cacheData, lines
\* 121-123, writes to the console
writeTextFileFails(i) ==
    /\ i \in DOMAIN inflight
    /\ inflight' = RemoveAt(inflight, i)
    /\ emits' = 0
    /\ UNCHANGED <<utcOffset, DEFAULT_DATA, data, shared, cacheFilePath, startup, emitted,
                   cacheFile, userFile, msg, dataIsDefault, shifts, channel, cacheLog>>

\* the event channel to the chart window goes away or comes back
channelChanges ==
    /\ channel' = (IF channel = "up" THEN "down" ELSE "up")
    /\ emits' = 0
    /\ UNCHANGED <<utcOffset, DEFAULT_DATA, data, shared, cacheFilePath, startup, emitted,
                   cacheFile, userFile, msg, dataIsDefault, shifts, inflight, cacheLog>>

\* no cache write is in flight
Settled == inflight = <<>>

(***************************************************************************)
(* Specifications                                                          *)
(***************************************************************************)
Init ==
    /\ utcOffset \in UtcOffsets
    /\ DEFAULT_DATA = DefaultData
    /\ data = DefaultData
    /\ shared = [i \in 1..Len(DefaultData.rows) |-> i]
    /\ dataIsDefault = TRUE
    /\ cacheFilePath = "null"
    /\ startup = "getCacheFilePath"
    /\ emitted = prepareData(DefaultData)
    /\ cacheFile \in {NoFile, JsonText(SampleDoc)}
    /\ userFile = NoFile
    /\ msg = NoMessage
    /\ shifts = 0
    /\ emits = 1
    /\ channel = "up"
    /\ inflight = <<>>
    /\ cacheLog = "idle"

Startup == resolveCachePath \/ loadCachedData

Next ==
    \/ Startup
    \/ addRow
    \/ addColumn
    \/ \E header \in Range(data.headers) : removeColumn(header)
    \/ \E header \in Range(data.headers), newHeader \in Names : updateHeader(header, newHeader)
    \/ \E rowIndex \in DOMAIN data.rows : clickIncrement(rowIndex)
    \/ \E rowIndex \in DOMAIN data.rows : clickDecrement(rowIndex)
    \/ \E rowIndex \in DOMAIN data.rows, header \in Range(data.headers), value \in RawStrings :
          updateValue(rowIndex, header, value)
    \/ \E rowIndex \in DOMAIN data.rows : removeRow(rowIndex)
    \/ \E rowIndex \in DOMAIN data.rows : toggleRowVisibility(rowIndex)
    \/ resetToDefaultData
    \/ saveDataToFile
    \/ handleKeyDown
    \/ \E fileContent \in OtherFiles \cup {userFile} : loadDataFromFile(fileContent)
    \/ \E i \in DOMAIN inflight : writeTextFileDone(i)
    \/ \E i \in DOMAIN inflight : writeTextFileFails(i)
    \/ channelChanges

Spec == Init /\ [][Next]_vars

\* In the specifications below the window handles an event only once the
\* cache write of the previous one has completed.

\* the column handlers
NextColumns ==
    \/ writeTextFileDone(1)
    \/ Settled /\ Startup
    \/ Settled /\ addColumn
    \/ Settled /\ \E header \in Range(data.headers) : removeColumn(header)
    \/ Settled /\ \E header \in Range(data.headers), newHeader \in Names : updateHeader(header, newHeader)

SpecColumns == Init /\ [][NextColumns]_vars

\* the row handlers, on columns that come and go
NextRows ==
    \/ writeTextFileDone(1)
    \/ Settled /\ Startup
    \/ Settled /\ addRow
    \/ Settled /\ \E header \in Range(data.headers) : removeColumn(header)
    \/ Settled /\ Len(data.rows) > 0 /\ \E header \in Range(data.headers) :
                updateValue(Len(data.rows), header, "2")
    \/ Settled /\ \E rowIndex \in DOMAIN data.rows : removeRow(rowIndex)

SpecRows == Init /\ [][NextRows]_vars

\* edits in place and the return to the default snapshot
NextReset ==
    \/ writeTextFileDone(1)
    \/ Settled /\ Startup
    \/ Settled /\ \E rowIndex \in DOMAIN data.rows : incrementMonth(rowIndex)
    \/ Settled /\ \E rowIndex \in DOMAIN data.rows : decrementMonth(rowIndex)
    \/ Settled /\ \E rowIndex \in DOMAIN data.rows : updateValue(rowIndex, data.headers[1], "2")
    \/ Settled /\ \E rowIndex \in DOMAIN data.rows : removeRow(rowIndex)
    \/ Settled /\ \E rowIndex \in DOMAIN data.rows : toggleRowVisibility(rowIndex)
    \/ Settled /\ resetToDefaultData

SpecReset == Init /\ [][NextReset]_vars

\* edits of the first column with every kind of input, and what is published and cached
NextPublish ==
    \/ writeTextFileDone(1)
    \/ Settled /\ Startup
    \/ Settled /\ \E rowIndex \in DOMAIN data.rows, value \in RawStrings :
                updateValue(rowIndex, data.headers[1], value)
    \/ Settled /\ \E rowIndex \in DOMAIN data.rows : toggleRowVisibility(rowIndex)

SpecPublish == Init /\ [][NextPublish]_vars

\* edits of the first cell, and what is saved and loaded
NextPersist ==
    \/ writeTextFileDone(1)
    \/ Settled /\ Startup
    \/ Settled /\ Len(data.rows) > 0 /\ \E value \in RawStrings : updateValue(1, data.headers[1], value)
    \/ Settled /\ saveDataToFile
    \/ Settled /\ \E fileContent \in OtherFiles \cup {userFile} : loadDataFromFile(fileContent)

SpecPersist == Init /\ [][NextPersist]_vars

\* renames, edits of the first cell, resets and loads: operations that commit
\* a snapshot and operations that refuse to
NextNotify ==
    \/ writeTextFileDone(1)
    \/ Settled /\ Startup
    \/ Settled /\ \E header \in Range(data.headers), newHeader \in Names :
                      updateHeader(header, newHeader)
    \/ Settled /\ Len(data.rows) > 0 /\ updateValue(1, data.headers[1], "")
    \/ Settled /\ resetToDefaultData
    \/ Settled /\ \E fileContent \in OtherFiles : loadDataFromFile(fileContent)

SpecNotify == Init /\ [][NextNotify]_vars

\* rows added, removed and shifted with the buttons the view enables
NextButtons ==
    \/ writeTextFileDone(1)
    \/ Settled /\ Startup
    \/ Settled /\ addRow
    \/ Settled /\ \E rowIndex \in DOMAIN data.rows : removeRow(rowIndex)
    \/ Settled /\ \E rowIndex \in DOMAIN data.rows : clickDecrement(rowIndex)
    \/ Settled /\ \E rowIndex \in DOMAIN data.rows : clickIncrement(rowIndex)

SpecButtons == Init /\ [][NextButtons]_vars

\* edits while the channel and the cache writes may fail
NextFailures ==
    \/ writeTextFileDone(1)
    \/ writeTextFileFails(1)
    \/ channelChanges
    \/ Settled /\ Startup
    \/ Settled /\ Len(data.rows) > 0 /\ \E value \in {"", "-1"} :
                      updateValue(1, data.headers[1], value)
    \/ Settled /\ Len(data.rows) > 0 /\ toggleRowVisibility(1)

SpecFailures == Init /\ [][NextFailures]_vars

\* edits and the two ways to save
NextSave ==
    \/ writeTextFileDone(1)
    \/ Settled /\ Startup
    \/ Settled /\ \E rowIndex \in DOMAIN data.rows, value \in RawStrings :
                      updateValue(rowIndex, data.headers[1], value)
    \/ Settled /\ \E rowIndex \in DOMAIN data.rows : removeRow(rowIndex)
    \/ Settled /\ saveDataToFile
    \/ Settled /\ handleKeyDown

SpecSave == Init /\ [][NextSave]_vars

\* From here on events are handled while cache writes are in flight, at most
\* MaxInflight of them.
Room == Len(inflight) < MaxInflight

\* startup, edits and the cache writes they issue, in every interleaving
NextCache ==
    \/ Startup
    \/ Room /\ Len(data.rows) > 0 /\ \E value \in RawStrings :
                   updateValue(1, data.headers[1], value)
    \/ Room /\ Len(data.rows) > 0 /\ toggleRowVisibility(1)
    \/ \E i \in DOMAIN inflight : writeTextFileDone(i)

SpecCache == Init /\ [][NextCache]_vars

(***************************************************************************)
(* Properties                                                              *)
(***************************************************************************)
Keys(row) == DOMAIN row.values
Distinct(s) == \A i, j \in DOMAIN s : i # j => s[i] # s[j]

\* C1: after every addColumn, removeColumn and updateHeader, every row's set
\* of value keys is exactly the set of headers.
C1_KeysEqualHeaders ==
    \A i \in DOMAIN data.rows : Keys(data.rows[i]) = Range(data.headers)

\* C2: renaming a header to its own name goes through without a message and
\* changes nothing: headers and rows are the same before and after.
C2_RenameToSameName ==
    [][\A header \in Range(data.headers) :
          updateHeader(header, header) => (data' = data /\ msg' = msg)]_vars

\* C3: renaming a header to the name of another existing header shows the
\* duplicate-column message and leaves the dataset as it was: no new
\* snapshot, nothing published, nothing cached.
C3_DuplicateRenameRejected ==
    [][\A oldHeader \in Range(data.headers), newHeader \in Names :
          (updateHeader(oldHeader, newHeader)
              /\ newHeader \in Range(data.headers) /\ newHeader # oldHeader)
          => /\ msg' = DuplicateColumnName
             /\ data' = data
             /\ DEFAULT_DATA' = DEFAULT_DATA
             /\ dataIsDefault' = dataIsDefault
             /\ emitted' = emitted
             /\ cacheFile' = cacheFile]_vars

\* a rename to another existing name has been refused on a table with rows
C3_Witness ==
    /\ msg = DuplicateColumnName
    /\ Len(data.headers) >= 2
    /\ Len(data.rows) >= 1

\* C4: headers never holds the same name twice; the name addColumn makes up
\* is never one that is already there.
C4_HeadersDistinct == Distinct(data.headers)

\* C5: resetToDefaultData leaves the dataset equal to the default snapshot
\* as it was when the window started.
C5_ResetRestoresDefault ==
    [][resetToDefaultData => data' = DefaultData]_vars

\* C6: every number published on the channel, written to the cache or
\* written to a saved file is a finite number >= 0.
C6_FiniteNonNegative(v) == v.kind = "finite" /\ v.n >= 0
C6_AllFiniteNonNegative(d) ==
    \A i \in DOMAIN d.rows : \A key \in DOMAIN d.rows[i].values :
        C6_FiniteNonNegative(d.rows[i].values[key])
C6_PublishedFiniteNonNegative ==
    /\ C6_AllFiniteNonNegative(emitted)
    /\ cacheFile.kind = "json" => C6_AllFiniteNonNegative(cacheFile.doc)
    /\ userFile.kind = "json" => C6_AllFiniteNonNegative(userFile.doc)

\* C7: what prepareData hands out is the dataset with 0 in every cell that
\* held NaN and everything else as it was: headers and their order, the rows
\* and their order, dates, hidden flags and all other values.
C7_ZeroForNaN(d) ==
    [headers |-> d.headers,
     rows |-> [i \in DOMAIN d.rows |->
        [field \in DOMAIN d.rows[i] |->
            IF field = "values"
            THEN [key \in DOMAIN d.rows[i].values |->
                    IF d.rows[i].values[key] = NaN THEN Num(0) ELSE d.rows[i].values[key]]
            ELSE d.rows[i][field]]]]
C7_PreparedIsZeroForNaN == emitted = C7_ZeroForNaN(data)

\* a snapshot with NaN in one cell and a number in another has been prepared
C7_Witness ==
    \E i \in DOMAIN data.rows : \E key, other \in Keys(data.rows[i]) :
        /\ data.rows[i].values[key] = NaN
        /\ emitted.rows[i].values[key] = Num(0)
        /\ data.rows[i].values[other].kind = "finite"
        /\ emitted.rows[i].values[other] = data.rows[i].values[other]

\* C8: saving a dataset whose values are numbers or NaN and then loading the
\* saved file goes through without an error message and leaves the dataset
\* with 0 in the NaN cells and hidden = false where the flag was missing,
\* headers, row order, dates and the other values being those saved.
C8_Valid(d) ==
    \A i \in DOMAIN d.rows : \A key \in DOMAIN d.rows[i].values :
        d.rows[i].values[key].kind \in {"finite", "NaN"}
C8_Expected(d) ==
    [headers |-> d.headers,
     rows |-> [i \in DOMAIN d.rows |->
        [date |-> d.rows[i].date,
         values |-> [key \in DOMAIN d.rows[i].values |->
                        IF d.rows[i].values[key] = NaN THEN Num(0) ELSE d.rows[i].values[key]],
         hidden |-> IF "hidden" \in DOMAIN d.rows[i] THEN d.rows[i].hidden ELSE FALSE]]]
C8_RoundTrip ==
    [][(/\ userFile = JSONstringify(prepareData(data))
        /\ C8_Valid(data)
        /\ loadDataFromFile(userFile))
       => (data' = C8_Expected(data) /\ msg' = msg)]_vars

\* the default table, saved with NaN in its first cell and no hidden flag on
\* its second row, has been loaded back
C8_Witness ==
    /\ userFile.kind = "json"
    /\ msg = FileSaved
    /\ ~dataIsDefault
    /\ data.headers = DefaultData.headers
    /\ Len(data.rows) = 2
    /\ shared = <<0, 0>>
    /\ data.rows[1].values["Lab 1"] = Num(0)
    /\ "hidden" \in DOMAIN data.rows[2] /\ data.rows[2].hidden = FALSE
    /\ data = C8_Expected(JSONparse(userFile))

\* C9: addRow on a table without rows leaves exactly one row, dated
\* 2027-10-14, with 1.0 under every header and nothing else, not hidden; the
\* headers are unchanged.
C9_AddRowOnEmpty ==
    [][(addRow /\ Len(data.rows) = 0)
       => data' = [headers |-> data.headers,
                   rows |-> << [date |-> <<2027, 10, 14>>,
                                values |-> [header \in Range(data.headers) |-> Num(1)],
                                hidden |-> FALSE] >>]]_vars

\* C10: addRow on a table with rows appends one row, dated three calendar
\* months after the last row, hidden, with the last row's values; the other
\* rows and the headers are unchanged, and an edit of the new last row leaves
\* the rows before it as they were.
C10_ThreeMonthsAfter(s) == format(addMonths([y |-> s[1], m |-> s[2], d |-> s[3]], 3))
C10_AddRowAfterLast ==
    [][/\ (addRow /\ Len(data.rows) > 0)
          => LET lastRow == data.rows[Len(data.rows)]
             IN data' = [headers |-> data.headers,
                         rows |-> Append(data.rows,
                                    [date |-> C10_ThreeMonthsAfter(lastRow.date),
                                     values |-> lastRow.values,
                                     hidden |-> TRUE])]
       /\ \A header \in Range(data.headers) :
             (Len(data.rows) > 1 /\ updateValue(Len(data.rows), header, "2"))
             => \A i \in 1..(Len(data.rows) - 1) : data'.rows[i] = data.rows[i]]_vars

\* C11: a load from the open dialog of a file that is not JSON, or that is
\* JSON and fails the schema, shows an error message and leaves the dataset
\* as it was: no snapshot is committed, nothing is published or cached.
C11_FailedLoadKeepsData ==
    [][\A fileContent \in OtherFiles \cup {userFile} :
          (/\ loadDataFromFile(fileContent)
           /\ \/ fileContent = NotJson
              \/ fileContent.kind = "json" /\ ~safeParseSuccess(fileContent.doc))
          => /\ msg' = (IF fileContent = NotJson THEN InvalidJson ELSE InvalidData)
             /\ data' = data
             /\ dataIsDefault' = dataIsDefault
             /\ DEFAULT_DATA' = DEFAULT_DATA
             /\ emits' = 0
             /\ inflight' = inflight]_vars

\* a load of something that is not JSON failed on an edited dataset
C11_Witness ==
    /\ msg = InvalidJson
    /\ data # DefaultData
    /\ ~dataIsDefault

\* C12: every step that replaces the snapshot publishes exactly one "data"
\* event, and its payload is the new snapshot with 0 for every cell that is
\* not a number; a step that refuses (a rename to a name in use, a reset on
\* the default object itself, a load that fails) publishes nothing.
C12_Normalized(d) ==
    [headers |-> d.headers,
     rows |-> [i \in DOMAIN d.rows |->
        [field \in DOMAIN d.rows[i] |->
            IF field = "values"
            THEN [key \in DOMAIN d.rows[i].values |->
                    IF d.rows[i].values[key].kind \in {"finite", "Infinity"}
                    THEN d.rows[i].values[key] ELSE Num(0)]
            ELSE d.rows[i][field]]]]

C12_Renames(duplicate) ==
    \E header \in Range(data.headers), newHeader \in Names :
        /\ updateHeader(header, newHeader)
        /\ duplicate = (newHeader # header /\ \E i \in DOMAIN data.headers :
                                                 data.headers[i] = newHeader)

C12_Loads(valid) ==
    \E fileContent \in OtherFiles :
        /\ loadDataFromFile(fileContent)
        /\ valid = (fileContent.kind = "json" /\ safeParseSuccess(fileContent.doc))

C12_Commits ==
    \/ C12_Renames(FALSE)
    \/ updateValue(1, data.headers[1], "")
    \/ resetToDefaultData /\ ~dataIsDefault
    \/ C12_Loads(TRUE)
    \/ loadCachedData /\ cacheFile # NoFile /\ safeParseSuccess(cacheFile.doc)

C12_Refuses ==
    \/ C12_Renames(TRUE)
    \/ resetToDefaultData /\ dataIsDefault
    \/ C12_Loads(FALSE)

C12_OneEventPerCommit ==
    [][/\ C12_Commits => (emits' = 1 /\ emitted' = C12_Normalized(data'))
       /\ C12_Refuses => (emits' = 0 /\ emitted' = emitted)]_vars

\* an edit has just published a snapshot that differs from the one before it
C12_Witness ==
    /\ emits = 1
    /\ ~dataIsDefault
    /\ emitted # C12_Normalized(DefaultData)
    /\ msg = DuplicateColumnName

\* C13: every step that commits a snapshot issues a write of its normalized
\* form to the cache file, whether or not the cache path was known to the
\* render the step happened in. (The code issues the write in the effect of
\* the commit or not at all, so "eventually" is "in that step".)
C13_Commits ==
    \/ \E value \in RawStrings : updateValue(1, data.headers[1], value)
    \/ toggleRowVisibility(1)
    \/ loadCachedData /\ cacheFile # NoFile /\ safeParseSuccess(cacheFile.doc)

C13_EveryCommitIsCached ==
    [][C13_Commits =>
          inflight' = Append(inflight, JSONstringify(C12_Normalized(data')))]_vars

\* C19: the startup cache load loses no user work: when it applies the cache
\* content after a mutation was committed, the dataset stays as the mutation
\* left it; and no cache write changes the cache file before the startup
\* load has read it.
C19_StartupKeepsUserWork ==
    [][/\ (loadCachedData /\ ~dataIsDefault) => data' = data
       /\ startup # "done" => cacheFile' = cacheFile]_vars

\* C20: whenever no cache write is in flight and a mutation was committed
\* after the cache path was resolved (so that a write was issued), the cache
\* file holds the normalized form of the current dataset.
C20_CacheConverges ==
    (Settled /\ cacheLog # "idle") =>
        cacheFile = JSONstringify(C12_Normalized(data))

\* the same for the runs in which the writes completed in the order they were issued
C20_CacheConvergesInOrder ==
    (Settled /\ cacheLog = "ordered") =>
        cacheFile = JSONstringify(C12_Normalized(data))

\* C14: with rows added, removed and shifted only through the buttons the
\* view enables, the rows stay in strictly ascending order of date: no row is
\* dated on or before the row above it.
C14_Before(s, t) ==
    \/ s[1] < t[1]
    \/ s[1] = t[1] /\ s[2] < t[2]
    \/ s[1] = t[1] /\ s[2] = t[2] /\ s[3] < t[3]

C14_RowsAscending ==
    \A i \in DOMAIN data.rows : i > 1 => C14_Before(data.rows[i - 1].date, data.rows[i].date)

\* C15: incrementMonth / decrementMonth set the row's date to the date it
\* had plus / minus one calendar month, clamped to the last day of the target
\* month, and leave everything else of the dataset as it was.
C15_Shifted(s, amount) == format(addMonths([y |-> s[1], m |-> s[2], d |-> s[3]], amount))

C15_ShiftsOneMonth ==
    [][\A rowIndex \in DOMAIN data.rows :
          /\ incrementMonth(rowIndex) =>
                data' = [data EXCEPT !.rows[rowIndex].date = C15_Shifted(@, 1)]
          /\ decrementMonth(rowIndex) =>
                data' = [data EXCEPT !.rows[rowIndex].date = C15_Shifted(@, 0 - 1)]]_vars

\* C16: an edit committed while the channel is down stays committed (the
\* cell holds the value entered, the row is toggled) and the failure is shown
\* to the user; a cache write that fails changes neither the dataset nor the
\* message shown; and after either, a further edit is still possible.
C16_Hidden(row) == "hidden" \in DOMAIN row /\ row.hidden

C16_FailuresKeepData ==
    /\ [][/\ \A value \in {"", "-1"} :
               (channel = "down" /\ updateValue(1, data.headers[1], value))
               => (/\ data'.rows[1].values[data.headers[1]] = parseFloat(value)
                   /\ msg' = CommunicationError)
          /\ (channel = "down" /\ toggleRowVisibility(1))
               => (/\ C16_Hidden(data'.rows[1]) = ~C16_Hidden(data.rows[1])
                   /\ msg' = CommunicationError)
          /\ \A i \in DOMAIN inflight :
               writeTextFileFails(i) => (data' = data /\ msg' = msg)]_vars
    /\ [](Len(data.rows) > 0 => ENABLED toggleRowVisibility(1))

\* a publish failed and was reported, a cache write failed silently (the
\* writes completed in order and yet the cache lacks the current snapshot),
\* and the dataset is the edited one
C16_Witness ==
    /\ msg = CommunicationError
    /\ emitted # C12_Normalized(data)
    /\ Settled
    /\ cacheLog = "ordered"
    /\ cacheFile # JSONstringify(C12_Normalized(data))

\* C17: setting a cell, shifting a date or toggling a row leaves the snapshot
\* that was current before it as it was, and with it the built-in default
\* snapshot: same dates, same values, same hidden flags.
C17_EditsInPlace ==
    \E rowIndex \in DOMAIN data.rows :
        \/ updateValue(rowIndex, data.headers[1], "2")
        \/ incrementMonth(rowIndex)
        \/ decrementMonth(rowIndex)
        \/ toggleRowVisibility(rowIndex)

C17_PreviousSnapshotKept ==
    [][C17_EditsInPlace => DEFAULT_DATA' = DEFAULT_DATA]_vars

\* C18: a save through Ctrl/Cmd+S writes what the Save button would write in
\* the same state: the normalized form of the dataset current at that moment.
C18_ShortcutSavesCurrent ==
    [][handleKeyDown => userFile' = JSONstringify(C12_Normalized(data))]_vars

\* the Save button does
C18_ButtonSavesCurrent ==
    [][saveDataToFile => userFile' = JSONstringify(C12_Normalized(data))]_vars

====
